---- MODULE Spec2Model ----
(***************************************************************************)
(* DockMan: the TTL cache of DockerClient (src/core/docker_client.py) and  *)
(* the refresh driver of DockManApp (src/tui/app.py).                      *)
(*                                                                         *)
(* Every coroutine of the client is a task.  A task runs atomically from   *)
(* one `await asyncio.to_thread(...)` to the next: the call is issued by   *)
(* the coroutine (pc = "call"), executed by the backend in a worker thread *)
(* (pc = "resp"), and the coroutine is resumed by the event loop later.    *)
(* A backend call that a coroutine makes without to_thread (c.image, line  *)
(* 55) runs on the thread of the event loop (pc = "build"): until it       *)
(* returns, no coroutine and no callback runs.                             *)
(* Numbers with two decimals (round(x, 2)) are kept in hundredths.         *)
(***************************************************************************)
EXTENDS Integers, Sequences, FiniteSets, TLC

\* ---------------------------------------------------------------- bounds
NTasks == 3          \* coroutines created in a run, one after the other
MaxConcurrent == 2   \* coroutines created in a run, all in flight at once
MaxTime == 10
MaxContainers == 2
MaxItems == 1

\* ------------------------------------------------------ program constants
CacheDuration == 5
TickPeriod == 5
Mib == 1048576

Kinds == {"containers", "images", "volumes", "networks"}
tab_ids == <<"containers", "images", "volumes", "networks">>
Tasks == 1..NTasks
ContainerFns == {"start", "stop", "restart", "remove"}
CommandFns == ContainerFns   \* remove_image, remove_volume, remove_network: "remove"

Ids(k) == IF k = "containers" THEN 1..MaxContainers ELSE 1..MaxItems

VARIABLES
    now,            \* time.time(), whole seconds
    cache,          \* DockerClient._cache
    stats_cache,    \* DockerClient._container_stats_cache
    backend,        \* the runtime: which objects exist, per kind
    running,        \* the runtime: which containers are running
    tasks,          \* the coroutines: position, locals, outcome
    out,            \* what the coroutine that finished last gave its caller
    hist,           \* history of each slot: its last writer and what that read returned
    statsBy,        \* history: the task whose stats call wrote each stats entry
    gen,            \* history: number of commands the backend executed, per kind
    app             \* DockManApp: docker_client, is_loading, active_tab, its timer,
                    \* tables and what its panes show

client == <<cache, stats_cache, backend, running, tasks, out, hist, statsBy, gen>>
vars == <<now, client, app>>

\* ------------------------------------------------------------ metrics
\* round(num / den, 0) for den > 0, ties to the even neighbour (Python round)
RoundDiv(num, den) ==
    LET q == num \div den
        r == num % den
    IN  IF 2 * r < den THEN q
        ELSE IF 2 * r > den THEN q + 1
        ELSE IF q % 2 = 0 THEN q ELSE q + 1

\* a stats sample: the counters container.stats(stream=False) reports
SampleBusy == [cur_total |-> 30, pre_total |-> 10, cur_system |-> 140, pre_system |-> 100,
               usage |-> 104858, has_limit |-> TRUE, limit |-> 209716]
SampleCalm == [cur_total |-> 11, pre_total |-> 10, cur_system |-> 108, pre_system |-> 100,
               usage |-> 52429, has_limit |-> TRUE, limit |-> 209716]
StatsSamples == {SampleBusy, SampleCalm}

\* every shape of sample: the counters may stand still or run backwards, and
\* memory_stats may come with a limit of 0 or without the key "limit"
AnySamples ==
    [cur_total : {5, 30}, pre_total : {10}, cur_system : {90, 100, 140},
     pre_system : {100}, usage : {2048, 104858}, has_limit : {TRUE},
     limit : {0, 209716}]
    \cup [cur_total : {5, 30}, pre_total : {10}, cur_system : {90, 100, 140},
          pre_system : {100}, usage : {2048, 104858}, has_limit : {FALSE},
          limit : {0}]

ZeroStats == [cpu |-> 0, memory |-> 0, memory_percent |-> 0]
\* _container_stats_cache maps an id to its entry, or has no entry for it
NoEntry == [cpu |-> -1, memory |-> -1, memory_percent |-> -1]

\* the test of line 85 dropped: a delta that is not positive is taken for 1
ComputeStatsUnguarded(s) ==
    LET cpu_delta    == s.cur_total - s.pre_total
        system_delta == s.cur_system - s.pre_system
        limit        == IF s.has_limit THEN s.limit ELSE 1
    IN  [cpu            |-> RoundDiv(cpu_delta * 10000,
                                     IF system_delta > 0 THEN system_delta ELSE 1),
         memory         |-> RoundDiv(s.usage * 100, Mib),
         memory_percent |-> IF limit > 0 THEN RoundDiv(s.usage * 10000, limit) ELSE 0]

\* lines 77-93: the three metrics of one sample, in hundredths
ComputeStats(s) ==
    LET cpu_delta    == s.cur_total - s.pre_total
        system_delta == s.cur_system - s.pre_system
        limit        == IF s.has_limit THEN s.limit ELSE 1
    IN  [cpu            |-> IF system_delta > 0
                            THEN RoundDiv(cpu_delta * 10000, system_delta) ELSE 0,
         memory         |-> RoundDiv(s.usage * 100, Mib),
         memory_percent |-> IF limit > 0 THEN RoundDiv(s.usage * 10000, limit) ELSE 0]

\* what one stats call gives: a sample, or an exception
StatsFailure == [ok |-> FALSE, sample |-> SampleCalm]
StatsAnswers == {[ok |-> TRUE, sample |-> s] : s \in StatsSamples} \cup {StatsFailure}
AnyAnswers == {[ok |-> TRUE, sample |-> s] : s \in AnySamples} \cup {StatsFailure}

\* the except clause of lines 94-100 dropped: a failed call keeps the old entry
StatsEntryKeeps(old, a) == IF a.ok THEN ComputeStats(a.sample) ELSE old

\* lines 75-100: the entry _update_stats_cache stores for one stats call
StatsEntry(old, a) == IF a.ok THEN ComputeStats(a.sample) ELSE ZeroStats

\* ------------------------------------------------------------ ports
\* c.attrs["NetworkSettings"]["Ports"]: None (missing), or a dict, kept as the
\* sequence of its items in dict order; hosts are the HostPort of the
\* bindings of a private port, <<>> for None or []
NoPorts == [missing |-> TRUE, items |-> <<>>]
PrivatePorts == {"80/tcp", "443/tcp"}
HostLists == {<<>>, <<"8080">>, <<"8080", "8081">>}
PortItems == [private : PrivatePorts, hosts : HostLists]
AnyPorts ==
    {NoPorts, [missing |-> FALSE, items |-> <<>>]}
    \cup {[missing |-> FALSE, items |-> <<a>>] : a \in PortItems}
    \cup {[missing |-> FALSE, items |-> <<ab[1], ab[2]>>] :
            ab \in {x \in PortItems \X PortItems : x[1].private # x[2].private}}

\* a string is kept as the sequence of the pieces it was put together from
\* ", ".join(result)
RECURSIVE Join(_)
Join(result) ==
    IF result = <<>> THEN <<>>
    ELSE IF Len(result) = 1 THEN result[1]
    ELSE result[1] \o <<", ">> \o Join(Tail(result))

\* lines 116-120: what one item of the dict appends to result
RECURSIVE PortEntries(_, _)
PortEntries(private_port, public_ports) ==
    IF public_ports = <<>> THEN <<>>
    ELSE << <<Head(public_ports), ":", private_port>> >>
         \o PortEntries(private_port, Tail(public_ports))

\* lines 115-120 with an unbound private port skipped
RECURSIVE PortResultBoundOnly(_)
PortResultBoundOnly(items) ==
    IF items = <<>> THEN <<>>
    ELSE PortEntries(Head(items).private, Head(items).hosts)
         \o PortResultBoundOnly(Tail(items))

\* lines 114-120: result after the loop over ports.items()
RECURSIVE PortResult(_)
PortResult(items) ==
    IF items = <<>> THEN <<>>
    ELSE (IF Head(items).hosts # <<>>
          THEN PortEntries(Head(items).private, Head(items).hosts)
          ELSE << <<Head(items).private>> >>)
         \o PortResult(Tail(items))

\* lines 110-121
_format_ports(ports) ==
    IF ports.missing \/ ports.items = <<>> THEN <<>> ELSE Join(PortResult(ports.items))

\* the port mapping of each container of the runtime
ContainerPorts ==
    [id \in 1..MaxContainers |->
        IF id = 1
        THEN [missing |-> FALSE,
              items |-> <<[private |-> "80/tcp", hosts |-> <<"8080", "8081">>],
                          [private |-> "443/tcp", hosts |-> <<>>]>>]
        ELSE NoPorts]

\* ------------------------------------------------------------ backend
RECURSIVE Ascending(_)
Ascending(S) ==
    IF S = {} THEN <<>>
    ELSE LET m == CHOOSE x \in S : \A y \in S : x <= y
         IN  <<m>> \o Ascending(S \ {m})

RawItem(k, id, ports) ==
    IF k = "containers"
    THEN [id |-> id, status |-> IF id \in running THEN "running" ELSE "exited",
          ports |-> ports[id]]
    ELSE [id |-> id]

\* client.<kind>.list(): the objects that exist now, in the backend's order;
\* containers.list(all=False) leaves out the containers that do not run
Listing(k, ports, all) ==
    LET ids == Ascending({id \in backend[k] :
                            all \/ k # "containers" \/ id \in running})
    IN  [n \in 1..Len(ids) |-> RawItem(k, ids[n], ports)]

\* ------------------------------------------------------------ cache
\* the freshness test with a window one second short
IsFreshShort(k, t) == t - cache[k].last_update < CacheDuration - 1

\* lines 43, 180, 215, 251: the freshness test of a read that starts at time t
IsFresh(k, t) == t - cache[k].last_update < CacheDuration

\* lines 57-59: the metrics of one record, with the default of an absent entry
StatsOf(sc, id) == IF sc[id] = NoEntry THEN ZeroStats ELSE sc[id]

\* lines 50-64, 186-194, 221-229, 257-265: the records built from a listing
Records(k, listing, sc) ==
    [n \in 1..Len(listing) |->
        IF k = "containers"
        THEN [id |-> listing[n].id, status |-> listing[n].status,
              ports |-> _format_ports(listing[n].ports),
              cpu |-> StatsOf(sc, listing[n].id).cpu,
              memory |-> StatsOf(sc, listing[n].id).memory,
              memory_percent |-> StatsOf(sc, listing[n].id).memory_percent]
        ELSE [id |-> listing[n].id]]

\* line 65 dropped: the fetch stores its records without its time stamp
WriteSlotDataOnly(k, data, current_time) == [cache EXCEPT ![k].data = data]

\* lines 50-65: what a completed fetch stores in its slot
WriteSlot(k, data, current_time) ==
    [cache EXCEPT ![k] = [data |-> data, last_update |-> current_time]]

\* the invalidation dropped
InvalidateNothing(k) == cache

\* the invalidation resets every slot
InvalidateAll(k) == [l \in Kinds |-> [cache[l] EXCEPT !.last_update = 0]]

\* lines 128, 139, 150, 161, 206, 242, 278: "Invalidate cache"
Invalidate(k) == [cache EXCEPT ![k].last_update = 0]

\* the except clause of a read resets its slot
OnFetchErrorClears(k) == [cache EXCEPT ![k] = [data |-> <<>>, last_update |-> 0]]

\* lines 68-70, 198-200, 233-235, 269-271: the cache after a read that raised
OnFetchError(k) == cache

\* the invalidation moved to a finally clause: it also runs when the command raised
OnCommandErrorInvalidates(k) == [cache EXCEPT ![k].last_update = 0]

\* lines 130-132 (and the six other commands): the cache after a command that raised
OnCommandError(k) == cache

\* ------------------------------------------------------------ tasks
IdleTask ==
    [pc |-> "idle", origin |-> "none", fn |-> "none", kind |-> "none", target |-> 0,
     current_time |-> 0, step |-> "none", listing |-> <<>>, i |-> 0,
     resp |-> "none", own |-> <<>>, seenVer |-> 0, snapGen |-> 0, all |-> TRUE]

DoneTask == [IdleTask EXCEPT !.pc = "done"]

NoOut == [task |-> 0, fn |-> "none", kind |-> "none", result |-> "none", ret |-> <<>>,
          own |-> <<>>, all |-> TRUE]

\* a coroutine can be created in slot t: slots are used in order
Free(t) == tasks[t].pc = "idle" /\ \A u \in 1..(t - 1) : tasks[u].pc # "idle"

\* the thread of the event loop is not inside a synchronous backend call
LoopRuns == \A t \in Tasks : tasks[t].pc # "build"

\* the error a caller gets: `except APIError` wraps, anything else passes through
Raised(resp) == IF resp = "api" THEN "wrapped" ELSE "raw"

\* task t returns to (or raises into) its caller
Finished(t, result, ret, own) ==
    /\ tasks' = [tasks EXCEPT ![t] = DoneTask]
    /\ out' = [task |-> t, fn |-> tasks[t].fn, kind |-> tasks[t].kind,
               result |-> result, ret |-> ret, own |-> own, all |-> tasks[t].all]

Started(origin, fn, k, id) ==
    [IdleTask EXCEPT !.origin = origin, !.fn = fn, !.kind = k, !.target = id,
                     !.current_time = now, !.seenVer = hist[k].ver]

Issued(task, step, i) ==
    [task EXCEPT !.pc = "call", !.step = step, !.i = i, !.resp = "none"]

\* lines 40-48 (and 177-185, 212-220, 248-256): a read up to its first await;
\* all is the argument of get_containers
ReadStartAll(t, k, origin, all) ==
    /\ IF IsFresh(k, now)
       THEN /\ tasks' = [tasks EXCEPT ![t] = DoneTask]
            /\ out' = [task |-> t, fn |-> "read", kind |-> k,
                       result |-> "hit", ret |-> cache[k].data, own |-> <<>>,
                       all |-> all]
       ELSE /\ tasks' = [tasks EXCEPT ![t] =
                    Issued([Started(origin, "read", k, 0) EXCEPT !.all = all], "list", 0)]
            /\ out' = out
    /\ UNCHANGED <<cache, stats_cache, backend, running, hist, statsBy, gen>>

ReadStart(t, k, origin) == ReadStartAll(t, k, origin, TRUE)

\* line 40: get_containers(all)
get_containers_all(t, origin, all) == ReadStartAll(t, "containers", origin, all)

\* get_containers() and get_containers(all=True) (app.py line 120)
get_containers(t, origin) == get_containers_all(t, origin, TRUE)
get_images(t, origin)     == ReadStart(t, "images", origin)
get_volumes(t, origin)    == ReadStart(t, "volumes", origin)
get_networks(t, origin)   == ReadStart(t, "networks", origin)

\* the backend answers the listing call of a read, in its worker thread;
\* its containers have one of the port mappings of attrs
BackendListOf(t, attrs) ==
    /\ tasks[t].pc = "call" /\ tasks[t].step = "list"
    /\ \E r \in {"ok", "api", "other"}, ports \in attrs :
        tasks' = [tasks EXCEPT ![t].pc = "resp", ![t].resp = r,
                     ![t].listing = IF r = "ok"
                                    THEN Listing(tasks[t].kind, ports, tasks[t].all)
                                    ELSE <<>>,
                     ![t].snapGen = gen[tasks[t].kind]]
    /\ UNCHANGED <<cache, stats_cache, backend, running, out, hist, statsBy, gen>>

BackendList(t) == BackendListOf(t, {ContainerPorts})

\* the same over a runtime whose containers have any port mapping
BackendListAnyPorts(t) == BackendListOf(t, [1..MaxContainers -> AnyPorts])

\* the record build of a container read calls the backend (c.image) and may raise
BuildOutcomes(k, listing) ==
    IF k = "containers" /\ listing # <<>> THEN {"ok", "api", "other"} ELSE {"ok"}

\* lines 50-70: the end of a read, after its last await
ReadFinish(t, sc, own, build) ==
    LET k    == tasks[t].kind
        data == Records(k, tasks[t].listing, sc)
    IN  IF build = "ok"
        THEN /\ cache' = WriteSlot(k, data, tasks[t].current_time)
             /\ hist' = [hist EXCEPT ![k] = [ver |-> @.ver + 1, by |-> "read",
                                             ret |-> data, at |-> tasks[t].current_time,
                                             dataGen |-> tasks[t].snapGen]]
             /\ Finished(t, "fetched", data, own)
        ELSE /\ cache' = OnFetchError(k)
             /\ Finished(t, Raised(build), <<>>, own)
             /\ UNCHANGED hist

\* lines 48-49, 185, 220, 256: the listing call returns to the coroutine
ListReturn(t) ==
    /\ tasks[t].pc = "resp" /\ tasks[t].step = "list"
    /\ IF tasks[t].resp # "ok"
       THEN /\ cache' = OnFetchError(tasks[t].kind)
            /\ Finished(t, Raised(tasks[t].resp), <<>>, <<>>)
            /\ UNCHANGED hist
       ELSE IF tasks[t].kind = "containers" /\ tasks[t].listing # <<>>
       THEN /\ tasks' = [tasks EXCEPT ![t] = Issued(@, "stats", 1)]
            /\ UNCHANGED <<cache, hist, out>>
       ELSE ReadFinish(t, stats_cache, <<>>, "ok")
    /\ UNCHANGED <<stats_cache, backend, running, statsBy, gen>>

\* lines 72-100 and 50-55: one turn of the loop of _update_stats_cache: the
\* stats call for container listing[i] returns; after the last container the
\* coroutine goes on into the record build, whose c.image (line 55) is a
\* request to the backend made on the thread of the event loop
StatsReturnOf(t, answers) ==
    /\ tasks[t].pc = "call" /\ tasks[t].step = "stats"
    /\ \E a \in answers :
        LET id == tasks[t].listing[tasks[t].i].id
            sc == [stats_cache EXCEPT ![id] = StatsEntry(@, a)]
        IN  /\ a.ok => id \in backend["containers"]
            /\ stats_cache' = sc
            /\ statsBy' = [statsBy EXCEPT ![id] = t]
            /\ IF tasks[t].i < Len(tasks[t].listing)
               THEN /\ tasks' = [tasks EXCEPT ![t] =
                            Issued([@ EXCEPT !.own = Append(@, a)], "stats", tasks[t].i + 1)]
                    /\ UNCHANGED <<cache, hist, out>>
               ELSE /\ tasks' = [tasks EXCEPT ![t] =
                            [@ EXCEPT !.pc = "build", !.step = "image",
                                      !.own = Append(@, a)]]
                    /\ UNCHANGED <<cache, hist, out>>
    /\ UNCHANGED <<backend, running, gen>>

StatsReturn(t) == StatsReturnOf(t, StatsAnswers)

\* the same over a runtime that reports every shape of sample
StatsReturnAny(t) == StatsReturnOf(t, AnyAnswers)

\* lines 50-70: the requests of the record build return; the read ends
BuildReturn(t) ==
    /\ tasks[t].pc = "build"
    /\ \E build \in BuildOutcomes("containers", tasks[t].listing) :
            ReadFinish(t, stats_cache, tasks[t].own, build)
    /\ UNCHANGED <<stats_cache, backend, running, statsBy, gen>>

\* ------------------------------------------------------------ commands
\* lines 123-126, 134-137, 145-148, 156-159, 202-205, 237-240, 273-276:
\* a mutating command up to its first await
CommandStart(t, fn, k, id) ==
    /\ tasks' = [tasks EXCEPT ![t] =
            Issued(Started("call", fn, k, id), IF k = "images" THEN "cmd" ELSE "get", 0)]
    /\ UNCHANGED <<cache, stats_cache, backend, running, out, hist, statsBy, gen>>

container_command(t) ==
    \E fn \in ContainerFns, id \in Ids("containers") : CommandStart(t, fn, "containers", id)
remove_image(t)   == \E id \in Ids("images") : CommandStart(t, "remove", "images", id)
remove_volume(t)  == \E id \in Ids("volumes") : CommandStart(t, "remove", "volumes", id)
remove_network(t) == \E id \in Ids("networks") : CommandStart(t, "remove", "networks", id)

\* lines 126-127, 137-138, 148-149, 159-160, 240-241, 276-277:
\* client.<kind>.get(id) returns
GetReturn(t) ==
    /\ tasks[t].pc = "call" /\ tasks[t].step = "get"
    /\ \E r \in {"ok", "api", "other"} :
        /\ r = "ok" => tasks[t].target \in backend[tasks[t].kind]
        /\ IF r = "ok"
           THEN tasks' = [tasks EXCEPT ![t] = Issued(@, "cmd", 0)] /\ out' = out
           ELSE Finished(t, Raised(r), <<>>, <<>>)
        /\ cache' = IF r = "ok" THEN cache ELSE OnCommandError(tasks[t].kind)
    /\ UNCHANGED <<stats_cache, backend, running, hist, statsBy, gen>>

\* what a command that the backend executes does to the backend
Effect(t) ==
    LET k == tasks[t].kind
        id == tasks[t].target
    IN  /\ backend' = IF tasks[t].fn = "remove"
                      THEN [backend EXCEPT ![k] = @ \ {id}] ELSE backend
        /\ running' = IF k # "containers" THEN running
                      ELSE IF tasks[t].fn \in {"start", "restart"}
                           THEN running \cup {id} ELSE running \ {id}
        /\ gen' = [gen EXCEPT ![k] = @ + 1]

\* lines 127-132 (and the six other commands): the command returns
CmdReturn(t) ==
    /\ tasks[t].pc = "call" /\ tasks[t].step = "cmd"
    /\ LET k == tasks[t].kind
       IN \/ /\ tasks[t].target \in backend[k]
             /\ Effect(t)
             /\ cache' = Invalidate(k)
             /\ hist' = [hist EXCEPT ![k].ver = @ + 1, ![k].by = "cmd"]
             /\ Finished(t, "ok", <<>>, <<>>)
          \/ /\ \E r \in {"api", "other"} : Finished(t, Raised(r), <<>>, <<>>)
             /\ cache' = OnCommandError(k)
             /\ UNCHANGED <<hist, backend, running, gen>>
    /\ UNCHANGED <<stats_cache, statsBy>>

\* ------------------------------------------------------------ time
AdvanceTo(limit) ==
    /\ now < limit
    /\ now' = now + 1
    /\ UNCHANGED <<client, app>>

Advance == AdvanceTo(MaxTime)

\* the timer left alone is followed for two of its periods longer
AdvanceLong == AdvanceTo(MaxTime + 2 * TickPeriod)

\* ------------------------------------------------------------ the TUI
\* app.py lines 231-240: the pane of tab_id shows a message; no read is made
mount_error_table(t) ==
    /\ tasks' = [tasks EXCEPT ![t] = IF @.pc = "sched" THEN DoneTask ELSE @]
    /\ UNCHANGED <<cache, stats_cache, backend, running, out, hist, statsBy, gen>>

\* app.py lines 231-240, the pane: every widget of the pane of tab_id is
\* removed, the table self.tables holds for it included ("detached"), and a
\* table with the message is mounted
ErrorTable(a, tab_id) ==
    [a EXCEPT !.tables[tab_id] = IF @ = "none" THEN "none" ELSE "detached",
              !.message[tab_id] = TRUE]

\* app.py lines 128-144 (and 158-172, 186-200, 214-228), the pane: a table is
\* mounted only when self.tables has none for the kind (query_one then finds
\* the first table of the pane, whose rows clear() removes); the rows go to
\* the table self.tables holds, mounted or not
DataTable(a, k) ==
    IF a.tables[k] = "none"
    THEN [a EXCEPT !.tables[k] = "mounted", !.message[k] = FALSE]
    ELSE a

\* app.py lines 111-112, 123-126, 128-144: what update_<kind>_tab and the
\* except clause of update_tab_content do with the outcome o of the read
Render(a, o) ==
    IF o.result \in {"wrapped", "raw"} \/ o.ret = <<>>
    THEN ErrorTable(a, o.kind)
    ELSE DataTable(a, o.kind)

\* app.py lines 91-114, the panes: the app after update_tab_content(tab_id)
\* has run up to the first await of its read, in coroutine t
Shown(a, t, tab_id, is_loading, docker_client) ==
    IF is_loading THEN a
    ELSE IF ~docker_client THEN ErrorTable(a, tab_id)
    ELSE IF tasks'[t].pc = "done" THEN Render(a, out')
    ELSE a

\* the is_loading test of lines 93-95 dropped
update_tab_content_eager(t, tab_id, is_loading, docker_client, origin) ==
    IF ~docker_client
    THEN mount_error_table(t)
    ELSE IF tab_id = "containers" THEN get_containers(t, origin)
    ELSE IF tab_id = "images" THEN get_images(t, origin)
    ELSE IF tab_id = "volumes" THEN get_volumes(t, origin)
    ELSE get_networks(t, origin)

\* the dispatch of lines 103-110 always takes its first branch
update_tab_content_first(t, tab_id, is_loading, docker_client, origin) ==
    IF is_loading
    THEN /\ tasks' = [tasks EXCEPT ![t] = IF @.pc = "sched" THEN DoneTask ELSE @]
         /\ UNCHANGED <<cache, stats_cache, backend, running, out, hist, statsBy, gen>>
    ELSE IF ~docker_client
    THEN mount_error_table(t)
    ELSE get_containers(t, origin)

\* app.py lines 91-114 with 116-120, 147-151, 175-179, 203-207: up to the
\* first await of the read
update_tab_content(t, tab_id, is_loading, docker_client, origin) ==
    IF is_loading
    THEN /\ tasks' = [tasks EXCEPT ![t] = IF @.pc = "sched" THEN DoneTask ELSE @]
         /\ UNCHANGED <<cache, stats_cache, backend, running, out, hist, statsBy, gen>>
    ELSE IF ~docker_client
    THEN mount_error_table(t)
    ELSE IF tab_id = "containers" THEN get_containers(t, origin)
    ELSE IF tab_id = "images" THEN get_images(t, origin)
    ELSE IF tab_id = "volumes" THEN get_volumes(t, origin)
    ELSE get_networks(t, origin)

\* app.py lines 54-75; DockerClient() (docker_client.py lines 16-38) connects
\* or raises
on_mount ==
    /\ ~app.mounted /\ LoopRuns
    /\ \E connected \in BOOLEAN, t \in Tasks :
        /\ Free(t)
        /\ update_tab_content(t, "containers", app.is_loading, connected, "mount")
        /\ app' = [Shown(app, t, "containers", app.is_loading, connected)
                        EXCEPT !.mounted = TRUE, !.docker_client = connected,
                               !.is_loading = FALSE, !.next_tick = now + TickPeriod]
    /\ UNCHANGED now

\* app.py lines 87-89, run by the timer of line 75: one callback at a time
update_active_tab ==
    /\ app.mounted /\ now >= app.next_tick /\ LoopRuns
    /\ \A u \in Tasks : tasks[u].origin # "tick"
    /\ \E t \in Tasks :
        /\ Free(t)
        /\ update_tab_content(t, app.active_tab, app.is_loading, app.docker_client, "tick")
        /\ app' = [Shown(app, t, app.active_tab, app.is_loading, app.docker_client)
                        EXCEPT !.next_tick = @ + TickPeriod]
    /\ UNCHANGED now

\* app.py lines 248-250: the tab after current_tab
NextTab(current_tab) ==
    LET current_index == CHOOSE n \in 1..Len(tab_ids) : tab_ids[n] = current_tab
    IN  tab_ids[(current_index % Len(tab_ids)) + 1]

\* app.py lines 242-254: key "t"; the worker is created, to run later
action_switch_tab ==
    /\ app.mounted /\ LoopRuns
    /\ \E t \in Tasks :
        /\ Free(t)
        /\ tasks' = [tasks EXCEPT ![t] =
                [IdleTask EXCEPT !.pc = "sched", !.origin = "worker",
                                 !.kind = NextTab(app.active_tab)]]
    /\ app' = [app EXCEPT !.active_tab = NextTab(@)]
    /\ UNCHANGED <<now, cache, stats_cache, backend, running, out, hist, statsBy, gen>>

\* the worker of line 254 starts to run update_tab_content(next_tab)
WorkerBegin(t) ==
    /\ tasks[t].pc = "sched" /\ LoopRuns
    /\ update_tab_content(t, tasks[t].kind, app.is_loading, app.docker_client, "worker")
    /\ app' = Shown(app, t, tasks[t].kind, app.is_loading, app.docker_client)
    /\ UNCHANGED now

\* ------------------------------------------------------------ specification
\* the slots stamped with the time of construction
InitFresh ==
    /\ now = CacheDuration
    /\ cache = [k \in Kinds |-> [data |-> <<>>, last_update |-> now]]
    /\ stats_cache = [id \in Ids("containers") |-> NoEntry]
    /\ backend = [k \in Kinds |-> Ids(k)]
    /\ running = {1}
    /\ tasks = [t \in Tasks |-> IdleTask]
    /\ out = NoOut
    /\ hist = [k \in Kinds |-> [ver |-> 0, by |-> "none", ret |-> <<>>, at |-> 0,
                                dataGen |-> 0]]
    /\ statsBy = [id \in Ids("containers") |-> 0]
    /\ gen = [k \in Kinds |-> 0]
    /\ app = [mounted |-> FALSE, docker_client |-> FALSE, is_loading |-> TRUE,
              active_tab |-> "containers", next_tick |-> 0,
              tables |-> [k \in Kinds |-> "none"], message |-> [k \in Kinds |-> FALSE]]

\* lines 27-34; time.time() is far beyond CacheDuration
Init ==
    /\ now = CacheDuration
    /\ cache = [k \in Kinds |-> [data |-> <<>>, last_update |-> 0]]
    /\ stats_cache = [id \in Ids("containers") |-> NoEntry]
    /\ backend = [k \in Kinds |-> Ids(k)]
    /\ running = {1}
    /\ tasks = [t \in Tasks |-> IdleTask]
    /\ out = NoOut
    /\ hist = [k \in Kinds |-> [ver |-> 0, by |-> "none", ret |-> <<>>, at |-> 0,
                                dataGen |-> 0]]
    /\ statsBy = [id \in Ids("containers") |-> 0]
    /\ gen = [k \in Kinds |-> 0]
    /\ app = [mounted |-> FALSE, docker_client |-> FALSE, is_loading |-> TRUE,
              active_tab |-> "containers", next_tick |-> 0,
              tables |-> [k \in Kinds |-> "none"], message |-> [k \in Kinds |-> FALSE]]

\* the coroutines of the TUI: their read is awaited by update_<kind>_tab
AppOrigins == {"mount", "tick", "worker"}

\* a caller invokes one method of the client
Call(t) ==
    /\ Free(t) /\ LoopRuns
    /\ \/ get_containers(t, "call") \/ get_images(t, "call")
       \/ get_volumes(t, "call") \/ get_networks(t, "call")
       \/ container_command(t) \/ remove_image(t) \/ remove_volume(t) \/ remove_network(t)
    /\ UNCHANGED <<now, app>>

\* a backend call of a read makes progress; a coroutine is resumed by the
\* event loop
StepRead(t) ==
    /\ \/ BackendList(t) \/ BuildReturn(t)
       \/ LoopRuns /\ (ListReturn(t) \/ StatsReturn(t))
    /\ app' = IF tasks'[t].pc = "done" /\ tasks[t].origin \in AppOrigins
              THEN Render(app, out') ELSE app
    /\ UNCHANGED now

\* an awaited backend call of a command makes progress
StepCommand(t) ==
    /\ LoopRuns
    /\ GetReturn(t) \/ CmdReturn(t)
    /\ UNCHANGED <<now, app>>

\* no coroutine is in flight
Solo == \A t \in Tasks : tasks[t].pc \in {"idle", "done"}

\* the client under concurrent callers: any interleaving of MaxConcurrent calls
Next ==
    \/ Advance
    \/ \E t \in 1..MaxConcurrent : Call(t)
    \/ \E t \in Tasks : StepRead(t) \/ StepCommand(t)

Spec == Init /\ [][Next]_vars

\* the client under one caller that awaits each call before the next one
NextSeq ==
    \/ Advance
    \/ \E t \in Tasks : Solo /\ Call(t)
    \/ \E t \in Tasks : StepRead(t) \/ StepCommand(t)

SpecSeq == Init /\ [][NextSeq]_vars

\* the TUI: the timer, the key binding and the workers drive the client
NextApp ==
    \/ Advance
    \/ on_mount
    \/ update_active_tab
    \/ action_switch_tab
    \/ \E t \in Tasks : WorkerBegin(t) \/ StepRead(t)

SpecApp == Init /\ [][NextApp]_vars

\* the TUI left alone: the timer is the only one to read
NextTicks ==
    \/ AdvanceLong
    \/ on_mount
    \/ update_active_tab
    \/ \E t \in Tasks : StepRead(t)

SpecTicks == Init /\ [][NextTicks]_vars

\* the first call of a client is get_containers
FirstRead(t) ==
    /\ out = NoOut /\ Solo /\ Free(t) /\ LoopRuns
    /\ get_containers(t, "call")
    /\ UNCHANGED <<now, app>>

\* StepRead over a runtime that reports every shape of stats sample
StepReadAnyStats(t) ==
    /\ \/ BackendList(t) \/ BuildReturn(t)
       \/ LoopRuns /\ (ListReturn(t) \/ StatsReturnAny(t))
    /\ UNCHANGED <<now, app>>

\* one read of the containers of a runtime that reports every shape of stats
\* sample
NextStats ==
    \/ \E t \in Tasks : FirstRead(t)
    \/ \E t \in Tasks : StepReadAnyStats(t)

SpecStats == Init /\ [][NextStats]_vars

\* StepRead over a runtime whose containers have any port mapping
StepReadAnyPorts(t) ==
    /\ \/ BackendListAnyPorts(t) \/ BuildReturn(t)
       \/ LoopRuns /\ (ListReturn(t) \/ StatsReturn(t))
    /\ UNCHANGED <<now, app>>

\* one read of the containers of a runtime whose containers have any port
\* mapping
NextPorts ==
    \/ \E t \in Tasks : FirstRead(t)
    \/ \E t \in Tasks : StepReadAnyPorts(t)

SpecPorts == Init /\ [][NextPorts]_vars

\* a caller reads the containers with either value of all
ReadEither(t) ==
    /\ Solo /\ Free(t) /\ LoopRuns
    /\ \E all \in BOOLEAN : get_containers_all(t, "call", all)
    /\ UNCHANGED <<now, app>>

\* one caller that reads the containers, with and without the stopped ones
NextAll ==
    \/ Advance
    \/ \E t \in Tasks : ReadEither(t)
    \/ \E t \in Tasks : StepRead(t)

SpecAll == Init /\ [][NextAll]_vars

\* ------------------------------------------------------------ the claims
Errors == {"wrapped", "raw"}

\* in this step coroutine t starts a read of kind k (a method get_<k> is entered)
StartsRead(t, k) ==
    /\ tasks[t].pc \in {"idle", "sched"}
    /\ \/ tasks'[t].pc = "call" /\ tasks'[t].fn = "read" /\ tasks'[t].kind = k
       \/ tasks'[t].pc = "done" /\ out'.task = t /\ out'.fn = "read" /\ out'.kind = k

\* in this step coroutine t issues a listing call to the backend
IssuesListing(t) ==
    tasks[t].pc \in {"idle", "sched"} /\ tasks'[t].pc = "call" /\ tasks'[t].step = "list"

\* in this step coroutine t returns to its caller, or raises
Returns(t) == tasks[t].pc # "done" /\ tasks'[t].pc = "done" /\ out'.task = t

\* a read of kind k has a backend fetch in flight in coroutine t
Fetching(t, k) ==
    tasks[t].fn = "read" /\ tasks[t].kind = k /\ tasks[t].pc \in {"call", "resp", "build"}

\* C1: when the last write of a slot is a completed fetch and a read of that
\* kind starts less than CacheDuration after that fetch's time stamp (nothing
\* else having written the slot in between), the read returns at once the
\* record sequence that fetch returned and issues no listing call.
C1_Idempotent ==
    [][\A t \in Tasks, k \in Kinds :
        (StartsRead(t, k) /\ hist[k].by = "read" /\ now - hist[k].at < CacheDuration)
            => /\ Returns(t) /\ out'.result = "hit"
               /\ out'.ret = hist[k].ret
               /\ \A u \in Tasks : ~IssuesListing(u)]_vars

\* a second read was served the non-empty records of the fetch before it
C1_Witness ==
    /\ out.fn = "read" /\ out.result = "hit" /\ out.ret # <<>>
    /\ hist[out.kind].by = "read" /\ out.ret = hist[out.kind].ret

\* C2: when the last write of a slot is the invalidation of a successful
\* command, the next read of that kind issues a listing call and does not
\* return the cached records, whatever the time is.
C2_Invalidated ==
    [][\A t \in Tasks, k \in Kinds :
        (StartsRead(t, k) /\ hist[k].by = "cmd")
            => IssuesListing(t) /\ out' = out]_vars

\* a read fetches although the records cached before the command are less
\* than CacheDuration old
C2_Witness ==
    \E t \in Tasks :
        /\ Fetching(t, tasks[t].kind) /\ tasks[t].step = "list"
        /\ hist[tasks[t].kind].by = "cmd"
        /\ cache[tasks[t].kind].data # <<>>
        /\ tasks[t].current_time - hist[tasks[t].kind].at < CacheDuration

\* C3: no slot is Fresh with records listed before a command of its kind
\* that has succeeded since (the statement of the claim; the code breaks it).
C3_InvalidationKept ==
    \A k \in Kinds : ~(IsFresh(k, now) /\ hist[k].dataGen < gen[k])

\* C4: no two reads of one kind have a backend fetch in flight at once
\* (the statement of the claim; the code breaks it).
C4_Serialized ==
    \A t \in Tasks, u \in Tasks, k \in Kinds :
        (Fetching(t, k) /\ Fetching(u, k)) => t = u

\* C5: when the listing call of a read has failed, the read raises, the step
\* leaves every slot as it was, and a slot that nobody wrote since the read
\* started is still Stale, so that a read that starts then issues a listing.
C5_FetchError ==
    [][\A t \in Tasks :
        (tasks[t].pc = "resp" /\ tasks[t].step = "list" /\ tasks[t].resp # "ok"
            /\ tasks'[t] # tasks[t])
            => /\ Returns(t) /\ out'.result \in Errors
               /\ cache' = cache
               /\ hist[tasks[t].kind].ver = tasks[t].seenVer
                    => ~(now' - cache'[tasks[t].kind].last_update < CacheDuration)]_vars

\* a read has raised over records of an earlier fetch, which are still cached
C5_Witness ==
    /\ out.fn = "read" /\ out.result \in Errors
    /\ cache[out.kind].data # <<>> /\ ~IsFresh(out.kind, now)

\* C6: when a command returns without the backend having executed it, it
\* raises and the step leaves all four slots as they were.
C6_CommandError ==
    [][\A t \in Tasks :
        (tasks[t].fn \in CommandFns /\ tasks[t].pc = "call" /\ tasks'[t].pc = "done"
            /\ gen' = gen)
            => /\ out'.task = t /\ out'.result \in Errors
               /\ cache' = cache]_vars

\* a command has raised while the slot of its kind is Fresh
C6_Witness ==
    /\ out.fn \in CommandFns /\ out.result \in Errors
    /\ IsFresh(out.kind, now) /\ cache[out.kind].data # <<>>

\* C7: a container read that returns after its stats calls returns one record
\* per listed container, in listing order; the record of a container whose
\* stats call failed has zero metrics and the record of one whose stats call
\* succeeded has the metrics of that sample (for every container whose stats
\* entry no other read has written since).
C7_StatsIsolation ==
    [][\A t \in Tasks :
        (tasks[t].pc = "build" /\ Returns(t) /\ out'.result = "fetched")
            => /\ Len(out'.ret) = Len(tasks[t].listing)
               /\ Len(out'.own) = Len(tasks[t].listing)
               /\ \A n \in 1..Len(tasks[t].listing) :
                    /\ out'.ret[n].id = tasks[t].listing[n].id
                    /\ statsBy'[out'.ret[n].id] = t =>
                        [cpu |-> out'.ret[n].cpu, memory |-> out'.ret[n].memory,
                         memory_percent |-> out'.ret[n].memory_percent]
                        = IF out'.own[n].ok THEN ComputeStats(out'.own[n].sample)
                          ELSE ZeroStats]_vars

\* a second container read has returned two records, one with zero metrics
\* for a failed stats call and one with the metrics of its sample
C7_Witness ==
    /\ out.result = "fetched" /\ Len(out.own) = 2 /\ hist["containers"].ver = 2
    /\ \E n, m \in 1..2 :
        /\ ~out.own[n].ok /\ out.ret[n].cpu = 0 /\ out.ret[n].memory = 0
        /\ out.own[m].ok /\ out.ret[m].cpu > 0 /\ out.ret[m].memory > 0

\* C8: right after a read that fetched returns, its slot is Fresh
\* (the statement of the claim; the code breaks it).
C8_FreshAfterFetch ==
    [][\A t \in Tasks :
        (Returns(t) /\ out'.fn = "read" /\ out'.result = "fetched")
            => now' - cache'[out'.kind].last_update < CacheDuration]_vars

\* C9: a step changes a slot in one of two ways only: a read that returns
\* with its fetch stores its records and its time stamp together, or a
\* command that succeeded resets last_update alone.  No step in which a read
\* is suspended or raises changes data or last_update.
C9_SetTogether ==
    [][\A k \in Kinds :
        cache'[k] # cache[k] =>
            \/ \E t \in Tasks :
                /\ Fetching(t, k) /\ Returns(t) /\ out'.result = "fetched"
                /\ cache'[k] = [data |-> out'.ret, last_update |-> tasks[t].current_time]
            \/ \E t \in Tasks :
                /\ tasks[t].fn \in CommandFns /\ tasks[t].kind = k
                /\ Returns(t) /\ out'.result = "ok"
                /\ cache'[k] = [data |-> cache[k].data, last_update |-> 0]]_vars

\* a slot holds the records and the time stamp of one fetch
C9_Witness ==
    \E k \in Kinds :
        /\ hist[k].by = "read" /\ cache[k].data # <<>>
        /\ cache[k] = [data |-> hist[k].ret, last_update |-> hist[k].at]

\* in this step the timer runs its callback
Ticks == app'.next_tick # app.next_tick /\ app.mounted

\* C10: with a connected client, the callback of every tick starts exactly
\* one read, of the active kind; every switch of the active kind creates at
\* once a worker for the newly active kind, and a worker that runs starts a
\* read of the kind it was created for, tick or no tick.
C10_Driver ==
    [][/\ (Ticks /\ app.docker_client) =>
            /\ \E t \in Tasks : StartsRead(t, app.active_tab)
            /\ \A t, u \in Tasks, k, l \in Kinds :
                (StartsRead(t, k) /\ StartsRead(u, l)) => (t = u /\ k = l)
       /\ app'.active_tab # app.active_tab =>
            \E t \in Tasks :
                /\ tasks[t].pc = "idle" /\ tasks'[t].pc = "sched"
                /\ tasks'[t].kind = app'.active_tab
       /\ \A t \in Tasks :
            (tasks[t].pc = "sched" /\ tasks'[t].pc # "sched" /\ app.docker_client)
                => StartsRead(t, tasks[t].kind)]_vars

\* a worker reads the newly active kind before the first tick is due, and
\* the tick that follows reads that kind too
C10_Witness ==
    /\ app.docker_client /\ app.active_tab = "images"
    /\ app.next_tick = 2 * TickPeriod + CacheDuration
    /\ hist["images"].by = "read" /\ hist["images"].at < TickPeriod + CacheDuration
    /\ \E t \in Tasks : tasks[t].origin = "tick" /\ Fetching(t, "images")

\* C11: no step of the driver ends in an app that is mounted without a
\* client: when the connection failed the timer is not started, no callback
\* of it runs and no tab switch is taken (the statement of the claim; the
\* code breaks it).
C11_Fatal ==
    [][(app'.mounted /\ ~app'.docker_client) => app' = app]_vars

\* C12: no call of the client ends with the exception of the backend
\* unwrapped (the statement of the claim; the code breaks it).
C12_Wrapped == out.result # "raw"

Abs(x) == IF x < 0 THEN -x ELSE x

\* C13: in the records of a container read, whose stats calls returned the
\* samples out.own: a sample whose system delta is zero or negative gives
\* cpu 0.0 and raises nothing (its memory is that of the sample, not the
\* zero of a failure); a sample whose system delta is positive gives
\* cpu_delta / system_delta * 100 to two decimals.
C13_CpuGuard ==
    (out.result = "fetched" /\ Len(out.own) = Len(out.ret)) =>
        \A n \in 1..Len(out.ret) :
            out.own[n].ok =>
                LET s            == out.own[n].sample
                    cpu_delta    == s.cur_total - s.pre_total
                    system_delta == s.cur_system - s.pre_system
                IN  /\ system_delta <= 0 =>
                        /\ out.ret[n].cpu = 0
                        /\ 2 * Abs(out.ret[n].memory * Mib - s.usage * 100) <= Mib
                    /\ system_delta > 0 =>
                        2 * Abs(out.ret[n].cpu * system_delta - cpu_delta * 10000)
                            <= system_delta

\* a read has returned a record for a sample whose system counter stood
\* still and one for a sample whose system counter ran backwards, the
\* container counter having moved in both
C13_Witness ==
    /\ out.result = "fetched" /\ Len(out.own) = 2 /\ Len(out.ret) = 2
    /\ \E n, m \in 1..2 :
        /\ out.own[n].ok /\ out.own[n].sample.cur_system = out.own[n].sample.pre_system
        /\ out.own[n].sample.cur_total > out.own[n].sample.pre_total
        /\ out.ret[n].cpu = 0 /\ out.ret[n].memory > 0
        /\ out.own[m].ok /\ out.own[m].sample.cur_system < out.own[m].sample.pre_system
        /\ out.own[m].sample.cur_total # out.own[m].sample.pre_total
        /\ out.ret[m].cpu = 0 /\ out.ret[m].memory > 0

\* C14: in the records of a container read, a sample whose memory limit is
\* 0 or absent gives memory_percent 0.0 (the statement of the claim; the
\* code breaks it).
C14_NoLimit ==
    (out.result = "fetched" /\ Len(out.own) = Len(out.ret)) =>
        \A n \in 1..Len(out.ret) :
            (out.own[n].ok /\ (~out.own[n].sample.has_limit \/ out.own[n].sample.limit = 0))
                => out.ret[n].memory_percent = 0

\* max(1, number of bindings) of one private port
Width(item) == IF Len(item.hosts) > 1 THEN Len(item.hosts) ELSE 1

\* the number of entries of the private ports before the i-th
RECURSIVE EntriesBefore(_, _)
EntriesBefore(items, i) ==
    IF i <= 1 THEN 0 ELSE EntriesBefore(items, i - 1) + Width(items[i - 1])

\* the entries of a non-empty text: its pieces between the separators
RECURSIVE Split(_)
Split(text) ==
    IF \A n \in 1..Len(text) : text[n] # ", " THEN <<text>>
    ELSE LET c == CHOOSE n \in 1..Len(text) :
                    text[n] = ", " /\ \A m \in 1..(n - 1) : text[m] # ", "
         IN  <<SubSeq(text, 1, c - 1)>> \o Split(SubSeq(text, c + 1, Len(text)))

\* C15: the ports text of every record of a container read is empty for a
\* missing or empty mapping; otherwise its entries, between separators, are
\* in mapping order "host:private" for every binding of a bound private port
\* and the bare private port for an unbound one, max(1, number of bindings)
\* entries for each private port.
C15_FormatPorts ==
    [][\A t \in Tasks :
        (tasks[t].pc = "build" /\ tasks'[t].pc = "done" /\ out'.result = "fetched")
            => \A n \in 1..Len(tasks[t].listing) :
                LET p == tasks[t].listing[n].ports
                    x == out'.ret[n].ports
                IN  IF p.missing \/ p.items = <<>> THEN x = <<>>
                    ELSE /\ x # <<>>
                         /\ Len(Split(x)) = EntriesBefore(p.items, Len(p.items) + 1)
                         /\ \A i \in 1..Len(p.items) :
                              IF p.items[i].hosts = <<>>
                              THEN Split(x)[EntriesBefore(p.items, i) + 1]
                                    = <<p.items[i].private>>
                              ELSE \A j \in 1..Len(p.items[i].hosts) :
                                    Split(x)[EntriesBefore(p.items, i) + j]
                                    = <<p.items[i].hosts[j], ":", p.items[i].private>>]_vars

\* a read has returned a record of a container with two bindings of one
\* private port and a second private port exposed only, and a record of a
\* container without a mapping
C15_Witness ==
    /\ out.result = "fetched" /\ Len(out.ret) = 2
    /\ \E n, m \in 1..2 :
        /\ out.ret[n].ports = <<"8080", ":", "80/tcp", ", ", "8081", ":", "80/tcp",
                                ", ", "443/tcp">>
        /\ out.ret[m].ports = <<>>

\* coroutine t has a backend call in flight
InFlight(t) == tasks[t].pc \in {"call", "resp", "build"}

\* C16: while a backend call of a coroutine is in flight, a caller can start
\* another call of the client (the statement of the claim; the code breaks
\* it).
C16_OnlyIssuerSuspended ==
    \A t \in Tasks, u \in 1..MaxConcurrent :
        (InFlight(t) /\ Free(u)) => ENABLED Call(u)

\* C17: a slot that nobody has written yet holds no records and is Stale,
\* and a read of its kind that starts then issues a listing call and returns
\* nothing from the cache.
C17_InitiallyStale ==
    /\ [](\A k \in Kinds :
            hist[k].ver = 0 => (cache[k].data = <<>> /\ ~IsFresh(k, now)))
    /\ [][\A t \in Tasks, k \in Kinds :
            (StartsRead(t, k) /\ hist[k].ver = 0) => (IssuesListing(t) /\ out' = out)]_vars

\* the first reads of two kinds are both fetching, no slot written yet
C17_Witness ==
    /\ \A k \in Kinds : hist[k].ver = 0
    /\ \E t, u \in Tasks :
        /\ Fetching(t, "volumes") /\ tasks[t].step = "list"
        /\ Fetching(u, "networks") /\ tasks[u].step = "list"

\* C18: a read that starts exactly CacheDuration after the time stamp of its
\* slot issues a listing call, and the callback of every tick of the timer
\* left alone issues a listing call (the statement of the claim; the code
\* breaks the second part).
C18_TicksFetch ==
    [][/\ \A t \in Tasks, k \in Kinds :
            (StartsRead(t, k) /\ now - cache[k].last_update = CacheDuration)
                => IssuesListing(t)
       /\ (Ticks /\ app.docker_client) => \E t \in Tasks : IssuesListing(t)]_vars

\* C19: every record of the containers slot has cpu >= 0 and memory >= 0
\* (the statement of the claim; the code breaks it).
C19_NonNegative ==
    \A n \in 1..Len(cache["containers"].data) :
        cache["containers"].data[n].cpu >= 0 /\ cache["containers"].data[n].memory >= 0

\* C20: a call that returns leaves the slots of the other kinds as they
\* were; a command that succeeded resets last_update of its slot and keeps
\* its records; a step in which no call returns changes no slot.
C20_Frame ==
    [][/\ \A t \in Tasks :
            Returns(t) =>
                /\ \A l \in Kinds \ {out'.kind} : cache'[l] = cache[l]
                /\ (out'.fn \in CommandFns /\ out'.result = "ok") =>
                        cache'[out'.kind] = [data |-> cache[out'.kind].data,
                                             last_update |-> 0]
       /\ (\A t \in Tasks : ~Returns(t)) => cache' = cache]_vars

\* a command has succeeded over the records of its kind, which stay in the
\* reset slot, while the slot of another kind is Fresh
C20_Witness ==
    /\ out.fn \in CommandFns /\ out.result = "ok"
    /\ cache[out.kind].data # <<>> /\ cache[out.kind].last_update = 0
    /\ \E l \in Kinds \ {out.kind} : IsFresh(l, now) /\ cache[l].data # <<>>

\* C21: last_update of a slot decreases only in the step in which a command
\* of its kind succeeds and resets it to 0 (the statement of the claim; the
\* code breaks it).
C21_Monotone ==
    [][\A k \in Kinds :
        cache'[k].last_update < cache[k].last_update =>
            /\ cache'[k].last_update = 0
            /\ \E t \in Tasks :
                /\ tasks[t].fn \in CommandFns /\ tasks[t].kind = k
                /\ Returns(t) /\ out'.result = "ok"]_vars

\* C24: the records get_containers(all=False) returns are all of running
\* containers (the statement of the claim; the code breaks it).
C24_AllHonoured ==
    (out.fn = "read" /\ out.kind = "containers" /\ ~out.all
        /\ out.result \in {"hit", "fetched"})
        => \A n \in 1..Len(out.ret) : out.ret[n].status = "running"

\* C22: when the pane of a kind shows a message table and a read of that
\* kind returns at least one record to the TUI, the table that gets the
\* records is mounted in the pane (the statement of the claim; the code
\* breaks it).
C22_RecordsVisible ==
    [][\A t \in Tasks :
        (Returns(t) /\ out'.fn = "read" /\ out'.result \in {"hit", "fetched"}
            /\ out'.ret # <<>> /\ app.message[out'.kind])
            => app'.tables[out'.kind] = "mounted"]_vars

====
